---- MODULE Spec2Model ----
(***************************************************************************)
(* Model of the chat socket server of src/api/index.ts: the global        *)
(* onlineUsers list, the per-room roomUsers registry, the per-socket      *)
(* socket.data and transport groups, and the five handlers (connection,   *)
(* joinRoom, leaveRoom, chat:message, disconnect).                        *)
(*                                                                         *)
(* A JavaScript string is a sequence of one-character strings, so that    *)
(* trim() is computed and not assumed.  Any other JavaScript value is a   *)
(* tagged record (see the values section).                                 *)
(***************************************************************************)
EXTENDS Integers, Sequences, FiniteSets, TLC

\* ---------------------------------------------------------------- bounds
MaxConns == 2
MaxEvents == 5

\* ---------------------------------------------------------------- strings
\* the strings clients send as room names and messages: empty, spaces only,
\* and the names "a" and "b" with and without spaces around them
Strings ==
    {<<>>, <<" ">>, <<" ", " ">>, <<"a">>, <<"b">>,
     <<" ", "a">>, <<"b", " ">>, <<" ", "a", " ">>}

Empty == <<>>

RECURSIVE TrimStart(_)
TrimStart(s) ==
    IF s = Empty THEN Empty
    ELSE IF Head(s) = " " THEN TrimStart(Tail(s)) ELSE s

RECURSIVE TrimEnd(_)
TrimEnd(s) ==
    IF s = Empty THEN Empty
    ELSE IF s[Len(s)] = " " THEN TrimEnd(SubSeq(s, 1, Len(s) - 1)) ELSE s

\* a trim that strips nothing
TrimNothing(s) == s

\* String.prototype.trim
Trim(s) == TrimEnd(TrimStart(s))

\* ---------------------------------------------------------------- values
\* null and undefined (both are nullish for ?? and falsy for !)
Null == [t |-> "null"]
Str(s) == [t |-> "str", s |-> s]
Num(n) == [t |-> "num", n |-> n]
Bool(b) == [t |-> "bool", b |-> b]
\* an object payload with the three identity fields, each a value or Null
Obj(uid, userId, id) == [t |-> "obj", uid |-> uid, userId |-> userId, id |-> id]

IsNullish(v) == v.t = "null"

\* a ?? b
Coalesce(a, b) == IF IsNullish(a) THEN b ELSE a

\* !v
Falsy(v) ==
    CASE v.t = "null" -> TRUE
      [] v.t = "str" -> v.s = Empty
      [] v.t = "num" -> v.n = 0
      [] v.t = "bool" -> ~v.b
      [] OTHER -> FALSE

Digit(n) == IF n = 0 THEN "0" ELSE "7"

\* String(v) and v.toString() on the values of the model
ToStr(v) ==
    CASE v.t = "str" -> v.s
      [] v.t = "num" -> <<Digit(v.n)>>
      [] v.t = "bool" -> IF v.b THEN <<"t", "r", "u", "e">> ELSE <<"f", "a", "l", "s", "e">>
      [] v.t = "null" -> <<"n", "u", "l", "l">>
      [] OTHER -> <<"[", "o", "b", "j", "e", "c", "t", "]">>

\* ---------------------------------------------------------------- sockets
\* the transport gives every connection a fresh id: the i-th is "s<i>"
SocketId(i) == <<"s", ToString(i)>>

SocketIds == {SocketId(i) : i \in 1..MaxConns}

\* ---------------------------------------------------------------- inputs
\* roomRaw of joinRoom / leaveRoom: undefined or any string
RoomRaws == {Null} \cup {Str(s) : s \in Strings}

\* userPayload of joinRoom: undefined, strings, numbers, and objects with
\* the identity fields uid, userId, id present or not
ObjPayloads ==
    {Obj(Str(<<"u">>), Str(<<"v">>), Num(7)), Obj(Null, Str(<<"v">>), Num(7)),
     Obj(Null, Null, Num(7)), Obj(Null, Null, Null), Obj(Str(Empty), Str(<<"v">>), Null)}

UserPayloads == {Null, Str(Empty), Str(<<"u">>), Num(0), Num(7)} \cup ObjPayloads

\* the (roomRaw, userPayload) pairs of joinRoom: every room without identity,
\* and every identity with the room "a"
JoinInputs ==
    {<<r, p>> \in RoomRaws \X UserPayloads : p = Null \/ r = Str(<<"a">>)}

\* payload of chat:message: undefined, a bare string, or an object
ChatObj(message, room, userId, timestamp, clientId) ==
    [t |-> "chat", message |-> message, room |-> room, userId |-> userId,
     timestamp |-> timestamp, clientId |-> clientId]

\* payload.room: undefined or a string that is its own trimmed form
ChatRooms == {Null} \cup {Str(s) : s \in {x \in Strings : Trim(x) = x}}

\* payload.userId, payload.timestamp, payload.clientId: all absent or all given
ChatExtras == {<<Null, Null, Null>>, <<Str(<<"x">>), Str(<<"t">>), Str(<<"k">>)>>}

ChatPayloads ==
    {Null, Str(<<"a">>)}
        \cup {ChatObj(m, Null, Null, Null, Null) : m \in RoomRaws}
        \cup {ChatObj(m, r, x[1], x[2], x[3]) :
                m \in {Str(<<" ">>), Str(<<" ", "a">>)}, r \in ChatRooms \ {Null}, x \in ChatExtras}

\* ---------------------------------------------------------------- state
VARIABLES
    conn,         \* socket id -> "idle" | "open" | "closed"
    onlineUsers,  \* let onlineUsers: OnlineUser[]
    roomUsers,    \* const roomUsers: Record<string, OnlineUser[]>
    data,         \* socket id -> socket.data (room, userId)
    groups,       \* socket id -> the transport rooms the socket has joined
    out,          \* the emissions of the handler that ran last, in order
    thrown,       \* the error the last handler raised, "none" if it returned
    ev,           \* the event handled last, with what the handler read
    nEvents       \* number of events handled

vars == <<conn, onlineUsers, roomUsers, data, groups, out, thrown, ev, nEvents>>

OnlineUser(sid, uid) == [socketId |-> sid, userId |-> uid]

NoData == [room |-> Null, userId |-> Null]

NoChat == [t |-> "null"]

Event(type, sid, room, arg, preRoom, preUsers) ==
    [type |-> type, sid |-> sid, room |-> room, arg |-> arg,
     preRoom |-> preRoom, preUsers |-> preUsers]

\* io.emit(event, ...): every connected socket
EmitAll(users, cn) ==
    [event |-> "usersOnline", scope |-> "all", room |-> Empty,
     rcpt |-> {d \in SocketIds : cn[d] = "open"}, users |-> users, chat |-> NoChat]

\* an emit to the room written as io.emit: every connected socket receives it
EmitRoomToAll(event, room, users, chat, cn, gr) ==
    [event |-> event, scope |-> "room", room |-> room,
     rcpt |-> {d \in SocketIds : cn[d] = "open"}, users |-> users, chat |-> chat]

\* io.to(room).emit(event, ...): the connected sockets of the group
EmitRoom(event, room, users, chat, cn, gr) ==
    [event |-> event, scope |-> "room", room |-> room,
     rcpt |-> {d \in SocketIds : cn[d] = "open" /\ room \in gr[d]},
     users |-> users, chat |-> chat]

\* roomUsers[room] ?? []
UsersOf(ru, room) == IF room \in DOMAIN ru THEN ru[room] ELSE <<>>

\* roomUsers[room] = users
SetRoom(ru, room, users) ==
    [r \in DOMAIN ru \cup {room} |-> IF r = room THEN users ELSE ru[r]]

\* users.findIndex(u => u.socketId === socket.id), 0 for -1
FindIndex(users, sid) ==
    IF \E i \in 1..Len(users) : users[i].socketId = sid
    THEN CHOOSE i \in 1..Len(users) :
            /\ users[i].socketId = sid
            /\ \A j \in 1..(i - 1) : users[j].socketId # sid
    ELSE 0

\* a filter with the comparison inverted: keeps the socket, drops the rest
WithoutInverted(users, sid) == SelectSeq(users, LAMBDA u : u.socketId = sid)

\* users.filter(u => u.socketId !== socket.id)
Without(users, sid) == SelectSeq(users, LAMBDA u : u.socketId # sid)

\* the room taken as sent, without trim()
NormalizeRoomNoTrim(roomRaw) == ToStr(Coalesce(roomRaw, Str(Empty)))

\* (roomRaw ?? "").toString().trim()
NormalizeRoom(roomRaw) == Trim(ToStr(Coalesce(roomRaw, Str(Empty))))

Init ==
    /\ conn = [c \in SocketIds |-> "idle"]
    /\ onlineUsers = <<>>
    /\ roomUsers = <<>>
    /\ data = [c \in SocketIds |-> NoData]
    /\ groups = [c \in SocketIds |-> {}]
    /\ out = <<>>
    /\ thrown = "none"
    /\ ev = Event("init", Empty, Null, Null, Null, <<>>)
    /\ nEvents = 0

\* the process is up (an error raised by a handler is not caught anywhere)
\* and the event budget of the model is not used up
Running == thrown = "none" /\ nEvents < MaxEvents

\* ---------------------------------------------------------------- handlers
\* a connection handler that does not record the socket
ConnectNoPush(c) ==
    /\ Running
    /\ conn[c] = "idle"
    /\ \E i \in 1..MaxConns :
          c = SocketId(i) /\ \A j \in 1..(i - 1) : conn[SocketId(j)] # "idle"
    /\ conn' = [conn EXCEPT ![c] = "open"]
    /\ onlineUsers' = onlineUsers
    /\ out' = <<EmitAll(onlineUsers', conn')>>
    /\ ev' = Event("connect", c, Null, Null, Null, <<>>)
    /\ nEvents' = nEvents + 1
    /\ UNCHANGED <<roomUsers, data, groups, thrown>>

\* io.on("connection", ...)
Connect(c) ==
    /\ Running
    /\ conn[c] = "idle"
    /\ \E i \in 1..MaxConns :
          c = SocketId(i) /\ \A j \in 1..(i - 1) : conn[SocketId(j)] # "idle"
    /\ conn' = [conn EXCEPT ![c] = "open"]
    /\ onlineUsers' = Append(onlineUsers, OnlineUser(c, Empty))
    /\ out' = <<EmitAll(onlineUsers', conn')>>
    /\ ev' = Event("connect", c, Null, Null, Null, <<>>)
    /\ nEvents' = nEvents + 1
    /\ UNCHANGED <<roomUsers, data, groups, thrown>>

\* The identity resolution of joinRoom.  The object branch reads the
\* identifier `name`, which nothing declares: evaluating it raises a
\* ReferenceError, and `!uid && name` evaluates it exactly when uid is "".
ResolveUid(sid, userPayload) ==
    LET done(uid) == [threw |-> FALSE, uid |-> IF uid = Empty THEN sid ELSE uid]
    IN  IF Falsy(userPayload) THEN done(sid)
        ELSE IF userPayload.t = "str" THEN done(userPayload.s)
        ELSE IF userPayload.t = "obj"
        THEN LET uid == ToStr(Coalesce(Coalesce(Coalesce(userPayload.uid, userPayload.userId),
                                               userPayload.id), Str(Empty)))
             IN  IF uid = Empty THEN [threw |-> TRUE, uid |-> Empty] ELSE done(uid)
        ELSE done(ToStr(userPayload))

\* a join that pushes without looking for the socket's entry
UpsertAlwaysPush(users, sid, uid) == Append(users, OnlineUser(sid, uid))

\* users[existingIdx] = {...} or users.push({...})
Upsert(users, sid, uid) ==
    LET existingIdx == FindIndex(users, sid)
    IN  IF existingIdx # 0
        THEN [users EXCEPT ![existingIdx] = OnlineUser(sid, uid)]
        ELSE Append(users, OnlineUser(sid, uid))

\* socket.on("joinRoom", ...)
JoinRoom(c, roomRaw, userPayload) ==
    LET room == NormalizeRoom(roomRaw)
        r == ResolveUid(c, userPayload)
    IN
    /\ Running
    /\ conn[c] = "open"
    /\ ev' = Event("joinRoom", c, roomRaw, userPayload, data[c].room, UsersOf(roomUsers, room))
    /\ nEvents' = nEvents + 1
    /\ UNCHANGED <<conn, onlineUsers>>
    /\ IF room = Empty
       THEN /\ out' = <<>>
            /\ UNCHANGED <<roomUsers, data, groups, thrown>>
       ELSE /\ groups' = [groups EXCEPT ![c] = @ \cup {room}]
            /\ IF r.threw
               THEN /\ data' = [data EXCEPT ![c].room = Str(room)]
                    /\ thrown' = "ReferenceError"
                    /\ out' = <<>>
                    /\ UNCHANGED roomUsers
               ELSE /\ roomUsers' = SetRoom(roomUsers, room, Upsert(UsersOf(roomUsers, room), c, r.uid))
                    /\ data' = [data EXCEPT ![c] = [room |-> Str(room), userId |-> Str(r.uid)]]
                    /\ out' = <<EmitRoom("usersOnline", room, roomUsers'[room], NoChat, conn', groups')>>
                    /\ UNCHANGED thrown

\* a leaveRoom that broadcasts the list it read before filtering it
LeaveRoomStale(c, roomRaw) ==
    LET room == NormalizeRoom(roomRaw)
    IN
    /\ Running
    /\ conn[c] = "open"
    /\ ev' = Event("leaveRoom", c, roomRaw, Null, data[c].room, UsersOf(roomUsers, room))
    /\ nEvents' = nEvents + 1
    /\ UNCHANGED <<conn, onlineUsers, thrown>>
    /\ IF room = Empty
       THEN /\ out' = <<>>
            /\ UNCHANGED <<roomUsers, data, groups>>
       ELSE /\ groups' = [groups EXCEPT ![c] = @ \ {room}]
            /\ roomUsers' = SetRoom(roomUsers, room, Without(UsersOf(roomUsers, room), c))
            /\ out' = <<EmitRoom("usersOnline", room, UsersOf(roomUsers, room), NoChat, conn', groups')>>
            /\ data' = [data EXCEPT ![c] = NoData]

\* socket.on("leaveRoom", ...)
LeaveRoom(c, roomRaw) ==
    LET room == NormalizeRoom(roomRaw)
    IN
    /\ Running
    /\ conn[c] = "open"
    /\ ev' = Event("leaveRoom", c, roomRaw, Null, data[c].room, UsersOf(roomUsers, room))
    /\ nEvents' = nEvents + 1
    /\ UNCHANGED <<conn, onlineUsers, thrown>>
    /\ IF room = Empty
       THEN /\ out' = <<>>
            /\ UNCHANGED <<roomUsers, data, groups>>
       ELSE /\ groups' = [groups EXCEPT ![c] = @ \ {room}]
            /\ roomUsers' = SetRoom(roomUsers, room, Without(UsersOf(roomUsers, room), c))
            /\ out' = <<EmitRoom("usersOnline", room, roomUsers'[room], NoChat, conn', groups')>>
            /\ data' = [data EXCEPT ![c] = NoData]

\* payload?.message
MessageOf(payload) == IF payload.t = "chat" THEN payload.message ELSE Null

\* a handler that relays to everyone when no room is resolved, the other
\* choice its comment names ("ignore or broadcast globally")
ChatEmissionsGlobalFallback(c, payload, stored, ru, cn, gr) ==
    LET trimmedMessage == Trim(ToStr(Coalesce(MessageOf(payload), Str(Empty))))
        room == Coalesce(payload.room, stored)
        users == UsersOf(ru, room.s)
        idx == FindIndex(users, c)
        sender == IF idx # 0 THEN Str(users[idx].userId) ELSE Null
        outgoingMessage(from) ==
            [userId |-> Coalesce(Coalesce(payload.userId, from), Str(c)),
             message |-> trimmedMessage,
             timestamp |-> Coalesce(payload.timestamp, Str(<<"n", "o", "w">>)),
             clientId |-> payload.clientId]
    IN  IF trimmedMessage = Empty THEN <<>>
        ELSE IF Falsy(room)
        THEN <<[event |-> "chat:message", scope |-> "all", room |-> Empty,
                rcpt |-> {d \in SocketIds : cn[d] = "open"}, users |-> <<>>,
                chat |-> outgoingMessage(Null)]>>
        ELSE <<EmitRoom("chat:message", room.s, <<>>, outgoingMessage(sender), cn, gr)>>

\* What the chat:message handler emits for socket c, whose socket.data.room
\* is stored: nothing for a blank message or when no room is resolved.
ChatEmissions(c, payload, stored, ru, cn, gr) ==
    LET trimmedMessage == Trim(ToStr(Coalesce(MessageOf(payload), Str(Empty))))
        room == Coalesce(payload.room, stored)
        users == UsersOf(ru, room.s)
        idx == FindIndex(users, c)
        sender == IF idx # 0 THEN Str(users[idx].userId) ELSE Null
        outgoingMessage ==
            [userId |-> Coalesce(Coalesce(payload.userId, sender), Str(c)),
             message |-> trimmedMessage,
             timestamp |-> Coalesce(payload.timestamp, Str(<<"n", "o", "w">>)),
             clientId |-> payload.clientId]
    IN  IF trimmedMessage = Empty THEN <<>>
        ELSE IF Falsy(room) THEN <<>>
        ELSE <<EmitRoom("chat:message", room.s, <<>>, outgoingMessage, cn, gr)>>

\* a chat:message handler that stores the room the payload names
ChatMessageStoresRoom(c, payload) ==
    /\ Running
    /\ conn[c] = "open"
    /\ out' = ChatEmissions(c, payload, data[c].room, roomUsers, conn, groups)
    /\ ev' = Event("chat:message", c, Null, payload, data[c].room, <<>>)
    /\ nEvents' = nEvents + 1
    /\ data' = [data EXCEPT ![c].room =
                    IF payload.t = "chat" THEN Coalesce(payload.room, @) ELSE @]
    /\ UNCHANGED <<conn, onlineUsers, roomUsers, groups, thrown>>

\* socket.on("chat:message", ...)
ChatMessage(c, payload) ==
    /\ Running
    /\ conn[c] = "open"
    /\ out' = ChatEmissions(c, payload, data[c].room, roomUsers, conn, groups)
    /\ ev' = Event("chat:message", c, Null, payload, data[c].room, <<>>)
    /\ nEvents' = nEvents + 1
    /\ UNCHANGED <<conn, onlineUsers, roomUsers, data, groups, thrown>>

\* a disconnect handler that sends the global list before the room's list
DisconnectGlobalFirst(c) ==
    LET room == data[c].room
    IN
    /\ Running
    /\ conn[c] = "open"
    /\ conn' = [conn EXCEPT ![c] = "closed"]
    /\ groups' = [groups EXCEPT ![c] = {}]
    /\ onlineUsers' = Without(onlineUsers, c)
    /\ ev' = Event("disconnect", c, Null, Null, room, IF Falsy(room) THEN <<>> ELSE UsersOf(roomUsers, room.s))
    /\ nEvents' = nEvents + 1
    /\ UNCHANGED <<data, thrown>>
    /\ IF ~Falsy(room)
       THEN /\ roomUsers' = SetRoom(roomUsers, room.s, Without(UsersOf(roomUsers, room.s), c))
            /\ out' = <<EmitAll(onlineUsers', conn'),
                        EmitRoom("usersOnline", room.s, roomUsers'[room.s], NoChat, conn', groups')>>
       ELSE /\ out' = <<EmitAll(onlineUsers', conn')>>
            /\ UNCHANGED roomUsers

\* socket.on("disconnect", ...).  The transport has taken the socket out of
\* its groups and of the connected sockets before the handler runs.
Disconnect(c) ==
    LET room == data[c].room
    IN
    /\ Running
    /\ conn[c] = "open"
    /\ conn' = [conn EXCEPT ![c] = "closed"]
    /\ groups' = [groups EXCEPT ![c] = {}]
    /\ onlineUsers' = Without(onlineUsers, c)
    /\ ev' = Event("disconnect", c, Null, Null, room, IF Falsy(room) THEN <<>> ELSE UsersOf(roomUsers, room.s))
    /\ nEvents' = nEvents + 1
    /\ UNCHANGED <<data, thrown>>
    /\ IF ~Falsy(room)
       THEN /\ roomUsers' = SetRoom(roomUsers, room.s, Without(UsersOf(roomUsers, room.s), c))
            /\ out' = <<EmitRoom("usersOnline", room.s, roomUsers'[room.s], NoChat, conn', groups'),
                        EmitAll(onlineUsers', conn')>>
       ELSE /\ out' = <<EmitAll(onlineUsers', conn')>>
            /\ UNCHANGED roomUsers

Next ==
    \/ \E c \in SocketIds : Connect(c)
    \/ \E c \in SocketIds, inp \in JoinInputs : JoinRoom(c, inp[1], inp[2])
    \/ \E c \in SocketIds, roomRaw \in RoomRaws : LeaveRoom(c, roomRaw)
    \/ \E c \in SocketIds, payload \in ChatPayloads : ChatMessage(c, payload)
    \/ \E c \in SocketIds : Disconnect(c)

Spec == Init /\ [][Next]_vars

\* ---------------------------------------------------------------- properties
SidsOf(users) == {users[i].socketId : i \in 1..Len(users)}

Rooms == DOMAIN roomUsers

\* the trimmed, non-empty room of the event handled last ("" if none)
EvRoom == IF ev.type \in {"joinRoom", "leaveRoom"} THEN NormalizeRoom(ev.room) ELSE Empty

\* C1: in every reachable state, every room's member sequence holds at most
\* one Member per socket id.
C1_OneMemberPerConnection ==
    \A r \in Rooms : \A i, j \in 1..Len(roomUsers[r]) :
        roomUsers[r][i].socketId = roomUsers[r][j].socketId => i = j

\* a socket that was listed in a room of two members has joined it again
C1_Witness ==
    /\ ev.type = "joinRoom"
    /\ thrown = "none"
    /\ EvRoom # Empty
    /\ ev.sid \in SidsOf(ev.preUsers)
    /\ Len(roomUsers[EvRoom]) = 2

\* C2: a disconnect step takes the socket out of onlineUsers (one entry
\* less) and out of the member sequence of its stored room (one entry less),
\* touches no other room, and emits exactly one global usersOnline and,
\* exactly when the socket has a stored room, one room usersOnline to that room.
C2_DisconnectStep ==
    [][ev'.type = "disconnect" =>
        LET c == ev'.sid
            room == data[c].room
            roomOut == {i \in 1..Len(out') : out'[i].scope = "room"}
            allOut == {i \in 1..Len(out') : out'[i].scope = "all"}
        IN  /\ c \notin SidsOf(onlineUsers')
            /\ Len(onlineUsers') = Len(onlineUsers) - 1
            /\ \A i \in 1..Len(out') : out'[i].event = "usersOnline"
            /\ Cardinality(allOut) = 1
            /\ IF Falsy(room)
               THEN /\ roomOut = {}
                    /\ roomUsers' = roomUsers
               ELSE /\ Cardinality(roomOut) = 1
                    /\ \A i \in roomOut : out'[i].room = room.s
                    /\ c \notin SidsOf(roomUsers'[room.s])
                    /\ Len(roomUsers'[room.s]) = Len(roomUsers[room.s]) - 1
                    /\ \A r \in Rooms \ {room.s} : roomUsers'[r] = roomUsers[r]
    ]_vars

\* a socket with a stored room, listed there with another member, has disconnected
C2_Witness ==
    /\ ev.type = "disconnect"
    /\ ~Falsy(ev.preRoom)
    /\ ev.sid \in SidsOf(ev.preUsers)
    /\ Len(ev.preUsers) = 2
    /\ Len(out) = 2

\* C3: once a socket has disconnected, no room's member sequence lists it.
C3_NoMemberAfterDisconnect ==
    \A c \in SocketIds : conn[c] = "closed" =>
        \A r \in Rooms : c \notin SidsOf(roomUsers[r])

\* the member sequences of all rooms are the same before and after the step
\* (a room without an entry counts as a room with no members)
SameMembers == \A r \in Rooms \cup DOMAIN roomUsers' : UsersOf(roomUsers', r) = UsersOf(roomUsers, r)

\* C4: a leaveRoom(r) step of a socket that r's member sequence does not list
\* emits nothing that reaches a socket, raises nothing, and changes no member
\* sequence and not the socket's stored room and userId.
C4_LeaveByNonMemberIsNoOp ==
    [][(/\ ev'.type = "leaveRoom"
        /\ ev'.sid \notin SidsOf(UsersOf(roomUsers, NormalizeRoom(ev'.room))))
       => /\ \A i \in 1..Len(out') : out'[i].rcpt = {}
          /\ thrown' = "none"
          /\ SameMembers
          /\ data'[ev'.sid] = data[ev'.sid]
    ]_vars

\* The userId that C5 states for an identity payload.  A payload that is
\* falsy in JavaScript ("" or 0) is read as an absent one.
C5_StatedUid(sid, p) ==
    IF Falsy(p) THEN sid
    ELSE IF p.t = "str" THEN p.s
    ELSE IF p.t = "obj"
    THEN IF ~IsNullish(p.uid) /\ ToStr(p.uid) # Empty THEN ToStr(p.uid)
         ELSE IF ~IsNullish(p.userId) /\ ToStr(p.userId) # Empty THEN ToStr(p.userId)
         ELSE IF ~IsNullish(p.id) /\ ToStr(p.id) # Empty THEN ToStr(p.id)
         ELSE sid
    ELSE IF ToStr(p) = Empty THEN sid ELSE ToStr(p)

\* C5: after a joinRoom with a non-empty room, the socket is listed in the
\* room with the userId the claim states for the payload, that userId is
\* stored on the socket, and the room broadcast was emitted.
C5_JoinResolvesIdentityAndCompletes ==
    (ev.type = "joinRoom" /\ EvRoom # Empty) =>
        LET uid == C5_StatedUid(ev.sid, ev.arg)
        IN  /\ thrown = "none"
            /\ OnlineUser(ev.sid, uid) \in {UsersOf(roomUsers, EvRoom)[i] : i \in 1..Len(UsersOf(roomUsers, EvRoom))}
            /\ data[ev.sid].userId = Str(uid)
            /\ Len(out) = 1
            /\ out[1].event = "usersOnline" /\ out[1].room = EvRoom

\* C6: no handler raises an error, and a joinRoom that changed the socket's
\* stored room or transport groups has also listed the socket in the room
\* and emitted the room broadcast.
C6_NoErrorNoPartialJoin ==
    /\ thrown = "none"
    /\ (/\ ev.type = "joinRoom"
        /\ EvRoom # Empty
        /\ (EvRoom \in groups[ev.sid] \/ data[ev.sid].room = Str(EvRoom)))
       => /\ ev.sid \in SidsOf(UsersOf(roomUsers, EvRoom))
          /\ Len(out) = 1

\* C7: a chat:message that reaches some socket was sent by a socket that is
\* in the target room (listed in its member sequence or in its transport group).
C7_ChatOnlyWithinOwnRoom ==
    \A i \in 1..Len(out) :
        (out[i].event = "chat:message" /\ out[i].rcpt # {}) =>
            \/ ev.sid \in SidsOf(UsersOf(roomUsers, out[i].room))
            \/ out[i].room \in groups[ev.sid]

\* absent, empty or made of spaces only
Blank(v) == IsNullish(v) \/ (v.t = "str" /\ \A i \in 1..Len(v.s) : v.s[i] = " ")

\* C8: after a chat:message whose message is absent, empty or whitespace-only,
\* the handler has emitted nothing.
C8_BlankMessageEmitsNothing ==
    (ev.type = "chat:message" /\ Blank(MessageOf(ev.arg))) => out = <<>>

\* a message of spaces, sent with a room in the payload by a socket that is
\* listed in that room
C8_Witness ==
    /\ ev.type = "chat:message"
    /\ ev.arg.t = "chat"
    /\ ev.arg.message.t = "str" /\ Len(ev.arg.message.s) > 0 /\ Blank(ev.arg.message)
    /\ ~IsNullish(ev.arg.room) /\ ev.arg.room = ev.preRoom
    /\ ev.sid \in SidsOf(UsersOf(roomUsers, ev.arg.room.s))

\* payload.room of a chat:message payload, absent when the payload is no object
ChatRoomOf(payload) == IF payload.t = "chat" THEN payload.room ELSE Null

\* C9: after a chat:message with no room in its payload, sent by a socket
\* with no stored room, the handler has emitted nothing.
C9_NoRoomEmitsNothing ==
    (/\ ev.type = "chat:message"
     /\ IsNullish(ChatRoomOf(ev.arg))
     /\ IsNullish(data[ev.sid].room)) => out = <<>>

\* a non-blank message without room, sent by a socket with no stored room
\* while another socket is listed in a room
C9_Witness ==
    /\ ev.type = "chat:message"
    /\ ~Blank(MessageOf(ev.arg))
    /\ IsNullish(ChatRoomOf(ev.arg))
    /\ IsNullish(data[ev.sid].room)
    /\ \E r \in Rooms : Len(roomUsers[r]) = 1 /\ ev.sid \notin SidsOf(roomUsers[r])
    /\ out = <<>>

\* every key of the registry is non-empty and has no space at either end
KeysTrimmed == \A r \in Rooms : r # Empty /\ r[1] # " " /\ r[Len(r)] # " "

\* C10: a joinRoom or leaveRoom step whose room is absent, empty or made of
\* spaces changes no member sequence, no socket.data, no transport group and
\* emits nothing; and after every step every key of the registry is a
\* non-empty trimmed string.
C10_BlankRoomIgnored ==
    [][/\ (ev'.type \in {"joinRoom", "leaveRoom"} /\ Blank(ev'.room))
          => /\ UNCHANGED <<roomUsers, data, groups, onlineUsers, conn, thrown>>
             /\ out' = <<>>
       /\ KeysTrimmed'
    ]_vars

\* a join with a room of spaces, by a socket that is listed in a room
C10_Witness ==
    /\ ev.type = "joinRoom"
    /\ ev.room.t = "str" /\ Len(ev.room.s) > 0 /\ Blank(ev.room)
    /\ ~IsNullish(data[ev.sid].room)
    /\ ev.sid \in SidsOf(UsersOf(roomUsers, data[ev.sid].room.s))
    /\ out = <<>>

\* the index of the socket's entry in a member sequence that lists it
IndexOf(users, sid) == CHOOSE i \in 1..Len(users) : users[i].socketId = sid

\* C11: a joinRoom(r) step of a socket that r already lists, with an identity
\* that resolves to another userId than the listed one, leaves the length of
\* r's sequence and every other entry as they were and puts the new userId
\* at the socket's index.
C11_RejoinReplacesInPlace ==
    [][LET c == ev'.sid
           room == NormalizeRoom(ev'.room)
           old == UsersOf(roomUsers, room)
           new == UsersOf(roomUsers', room)
       IN  (/\ ev'.type = "joinRoom"
            /\ room # Empty
            /\ c \in SidsOf(old)
            /\ old[IndexOf(old, c)].userId # C5_StatedUid(c, ev'.arg))
           => /\ Len(new) = Len(old)
              /\ new[IndexOf(old, c)] = OnlineUser(c, C5_StatedUid(c, ev'.arg))
              /\ \A j \in 1..Len(old) : j # IndexOf(old, c) => new[j] = old[j]
    ]_vars

\* C12: after a joinRoom that completed with room r, the handler has emitted
\* exactly one usersOnline, to r, carrying r's member sequence; it reached
\* exactly the connected sockets that r lists, the joining socket among them;
\* the sequence holds the socket's Member with the resolved userId, and is
\* that Member alone when r had no members.
C12_JoinBroadcastsToRoom ==
    (ev.type = "joinRoom" /\ EvRoom # Empty /\ thrown = "none") =>
        LET me == OnlineUser(ev.sid, C5_StatedUid(ev.sid, ev.arg))
        IN  /\ Len(out) = 1
            /\ out[1].event = "usersOnline"
            /\ out[1].scope = "room" /\ out[1].room = EvRoom
            /\ out[1].users = roomUsers[EvRoom]
            /\ out[1].rcpt = {d \in SidsOf(roomUsers[EvRoom]) : conn[d] = "open"}
            /\ ev.sid \in out[1].rcpt
            /\ \E i \in 1..Len(out[1].users) : out[1].users[i] = me
            /\ ev.preUsers = <<>> => out[1].users = <<me>>

\* a socket has joined an empty room as "u" while another connected socket
\* is outside the room
C12_Witness ==
    /\ ev.type = "joinRoom" /\ EvRoom # Empty /\ thrown = "none"
    /\ ev.preUsers = <<>>
    /\ ev.arg = Str(<<"u">>)
    /\ Len(out) = 1
    /\ \E d \in SocketIds : conn[d] = "open" /\ d \notin out[1].rcpt

\* m is raw without the spaces at its two ends
StripsTo(raw, m) ==
    /\ m # Empty /\ m[1] # " " /\ m[Len(m)] # " "
    /\ \E i, j \in 0..Len(raw) :
          /\ i + j <= Len(raw)
          /\ \A k \in 1..i : raw[k] = " "
          /\ \A k \in (Len(raw) - j + 1)..Len(raw) : raw[k] = " "
          /\ SubSeq(raw, i + 1, Len(raw) - j) = m

\* C13: a relayed chat:message is one emission to the resolved room
\* (payload.room, else the stored room); its userId is payload.userId if
\* given, else the userId of the sender's Member in that room, else the
\* socket id; its message is the input without the spaces at its ends; it
\* reaches every connected socket of the room's group, the sender included.
C13_RelayedMessage ==
    (ev.type = "chat:message" /\ out # <<>>) =>
        LET p == ev.arg
            room == IF ~IsNullish(p.room) THEN p.room.s ELSE data[ev.sid].room.s
            mine == {i \in 1..Len(UsersOf(roomUsers, room)) : roomUsers[room][i].socketId = ev.sid}
            userId == IF ~IsNullish(p.userId) THEN p.userId
                      ELSE IF mine # {} THEN Str(roomUsers[room][CHOOSE i \in mine : TRUE].userId)
                      ELSE Str(ev.sid)
        IN  /\ Len(out) = 1
            /\ out[1].event = "chat:message"
            /\ out[1].scope = "room" /\ out[1].room = room
            /\ out[1].chat.userId = userId
            /\ StripsTo(p.message.s, out[1].chat.message)
            /\ out[1].rcpt = {d \in SocketIds : conn[d] = "open" /\ room \in groups[d]}
            /\ ev.sid \in out[1].rcpt

\* rest is users without its k-th entry, the others in the same order
RemovedAt(users, k, rest) ==
    /\ Len(rest) = Len(users) - 1
    /\ \A j \in 1..Len(rest) : rest[j] = IF j < k THEN users[j] ELSE users[j + 1]

\* C14: a room's sequence stays in join order.  A joinRoom changes only the
\* room joined, by appending the joiner at the end or by replacing its entry
\* where it is; a leaveRoom(r) or a disconnect by a member of r takes out
\* that member's entry of r and leaves the rest in their order; nothing else
\* changes a sequence.
C14_JoinOrderKept ==
    [][\A r \in DOMAIN roomUsers \cup DOMAIN roomUsers' :
          LET c == ev'.sid
              old == UsersOf(roomUsers, r)
              new == UsersOf(roomUsers', r)
              joined == ev'.type = "joinRoom" /\ r = NormalizeRoom(ev'.room)
              left == \/ ev'.type = "leaveRoom" /\ r = NormalizeRoom(ev'.room)
                      \/ ev'.type = "disconnect"
          IN  /\ (joined /\ new # old) =>
                    \/ /\ c \notin SidsOf(old)
                       /\ new = Append(old, new[Len(new)])
                       /\ new[Len(new)].socketId = c
                    \/ /\ Len(new) = Len(old)
                       /\ \A j \in 1..Len(old) :
                             new[j] # old[j] => old[j].socketId = c /\ new[j].socketId = c
              /\ (left /\ c \in SidsOf(old)) => RemovedAt(old, IndexOf(old, c), new)
              /\ ~joined /\ ~(left /\ c \in SidsOf(old)) => new = old
    ]_vars

\* C15: an event that changes a room's sequence emits, in the same step, a
\* usersOnline to that room carrying the sequence after the change; and
\* every room-scoped usersOnline carries the room's sequence as it is when
\* the event is done.  So the last room-scoped usersOnline of a room always
\* equals the registry's sequence for it.
C15_ChangeIsBroadcast ==
    [][/\ \A r \in DOMAIN roomUsers' :
             UsersOf(roomUsers, r) # roomUsers'[r] =>
                 \E i \in 1..Len(out') :
                     /\ out'[i].event = "usersOnline" /\ out'[i].scope = "room"
                     /\ out'[i].room = r /\ out'[i].users = roomUsers'[r]
       /\ DOMAIN roomUsers \subseteq DOMAIN roomUsers'
       /\ \A i \in 1..Len(out') :
             (out'[i].event = "usersOnline" /\ out'[i].scope = "room") =>
                 out'[i].users = UsersOf(roomUsers', out'[i].room)
    ]_vars

\* a member has left a room of two: the other one is sent the list of one
C15_Witness ==
    /\ ev.type = "leaveRoom" /\ Len(ev.preUsers) = 2 /\ Len(out) = 1
    /\ out[1].users = roomUsers[EvRoom] /\ Len(out[1].users) = 1
    /\ out[1].rcpt = {out[1].users[1].socketId}

\* the connected sockets, in the order they connected (the i-th connection
\* has id s<i>)
ConnectedInOrder ==
    LET open == {i \in 1..MaxConns : conn[SocketId(i)] = "open"}
        nth[k \in 0..MaxConns] ==
            IF k = 0 THEN <<>>
            ELSE IF k \in open THEN Append(nth[k - 1], SocketId(k)) ELSE nth[k - 1]
    IN  nth[MaxConns]

\* C16: the global list holds each connected socket exactly once, in
\* connect order, and nobody else.  A connect appends one entry for the new
\* socket and sends the list to all connected sockets; a disconnect leaves
\* no entry of the socket; joinRoom, leaveRoom and chat:message leave the
\* list as it is.
C16_GlobalPresence ==
    [][/\ Len(onlineUsers') = Len(ConnectedInOrder')
       /\ \A i \in 1..Len(onlineUsers') : onlineUsers'[i].socketId = ConnectedInOrder'[i]
       /\ ev'.type = "connect" =>
             /\ onlineUsers' = Append(onlineUsers, onlineUsers'[Len(onlineUsers')])
             /\ onlineUsers'[Len(onlineUsers')].socketId = ev'.sid
             /\ Len(out') = 1
             /\ out'[1].event = "usersOnline" /\ out'[1].scope = "all"
             /\ out'[1].users = onlineUsers'
             /\ out'[1].rcpt = {d \in SocketIds : conn'[d] = "open"}
       /\ ev'.type = "disconnect" => ev'.sid \notin SidsOf(onlineUsers')
       /\ ev'.type \in {"joinRoom", "leaveRoom", "chat:message"} =>
             onlineUsers' = onlineUsers
    ]_vars

\* the second socket has connected while the first is in a room: the list
\* of two goes to both
C16_Witness ==
    /\ ev.type = "connect" /\ Len(onlineUsers) = 2
    /\ onlineUsers[2].socketId = ev.sid
    /\ Len(out) = 1 /\ Cardinality(out[1].rcpt) = 2
    /\ \E r \in Rooms : roomUsers[r] # <<>>

\* C17: a socket whose stored room is A joins another room B: its stored
\* room and userId become B and the userId the join states, A's sequence is
\* left as it was, the socket is listed in both A and B, and nothing is
\* emitted to A.
C17_JoinOtherRoomKeepsOld ==
    [][LET c == ev'.sid
           B == NormalizeRoom(ev'.room)
       IN  (/\ ev'.type = "joinRoom" /\ ~Falsy(ev'.preRoom)
            /\ B # Empty /\ Str(B) # ev'.preRoom)
           => LET A == ev'.preRoom.s
              IN  /\ data'[c] = [room |-> Str(B), userId |-> Str(C5_StatedUid(c, ev'.arg))]
                  /\ UsersOf(roomUsers', A) = UsersOf(roomUsers, A)
                  /\ c \in SidsOf(UsersOf(roomUsers', A))
                  /\ c \in SidsOf(UsersOf(roomUsers', B))
                  /\ \A i \in 1..Len(out') : out'[i].room # A
    ]_vars

\* C18: a connected socket is listed in a room's sequence exactly when it
\* is in the transport group of that room.
C18_ListedIffInGroup ==
    \A c \in SocketIds : conn[c] = "open" =>
        \A r \in Rooms \cup groups[c] :
            c \in SidsOf(UsersOf(roomUsers, r)) <=> r \in groups[c]

\* C19: the disconnect of a socket with a stored room emits two usersOnline,
\* first the one to that room, then the one to all; neither list has an
\* entry of the socket.
C19_DisconnectRoomThenGlobal ==
    (ev.type = "disconnect" /\ ~Falsy(ev.preRoom)) =>
        /\ Len(out) = 2
        /\ out[1].event = "usersOnline" /\ out[1].scope = "room"
        /\ out[1].room = ev.preRoom.s
        /\ out[2].event = "usersOnline" /\ out[2].scope = "all"
        /\ ev.sid \notin SidsOf(out[1].users)
        /\ ev.sid \notin SidsOf(out[2].users)

\* one of two sockets of a room has disconnected: the other one is sent
\* the room's list, then the global list, each with one entry
C19_Witness ==
    /\ ev.type = "disconnect" /\ ~Falsy(ev.preRoom)
    /\ Len(ev.preUsers) = 2 /\ ev.sid \in SidsOf(ev.preUsers)
    /\ Len(out) = 2
    /\ Len(out[1].users) = 1 /\ Len(out[2].users) = 1
    /\ out[1].rcpt # {} /\ out[1].rcpt = out[2].rcpt

\* C20: a chat:message, relayed or ignored, leaves the global list, every
\* room's sequence, every socket's stored room and userId and every
\* transport group as they were.
C20_ChatChangesNoState ==
    [][ev'.type = "chat:message" =>
          /\ onlineUsers' = onlineUsers
          /\ roomUsers' = roomUsers
          /\ data' = data
          /\ groups' = groups
          /\ conn' = conn
    ]_vars

\* a message naming a room has been relayed by a socket that is in a room
C20_Witness ==
    /\ ev.type = "chat:message" /\ Len(out) = 1
    /\ ~IsNullish(ev.arg.room) /\ ~Falsy(data[ev.sid].room)
    /\ ev.arg.room # data[ev.sid].room

====
